---- MODULE Spec2Model ----
(***************************************************************************)
(* Supervisor / readiness gate of src-tauri/src/main.rs: the polling loop  *)
(* wait_for_services, the two launch threads (start_backend,               *)
(* start_frontend), the shared AppState behind a Mutex, and the            *)
(* close-requested handler.                                                *)
(***************************************************************************)
EXTENDS Integers, Sequences, FiniteSets

\* main.rs:137  let max_attempts = 60;
max_attempts == 60

\* main.rs:136  let mut attempts = 0;
InitialAttempts == 0

\* Outcomes of reqwest::get(...).await as is_*_ready distinguishes them
\* (main.rs:12-15, 20-23): Ok with a success status, Ok with another status,
\* Err.
ProbeResponses == {"ok_success", "ok_other", "err"}

\* main.rs:11-16 / 19-24: Ok(response) => response.status().is_success(),
\* Err(_) => false.
is_backend_ready(r) == r = "ok_success"

is_frontend_ready(r) == r = "ok_success"

\* main.rs:147: the URL handed to window.navigate.
FrontendRootUrl == "http://127.0.0.1:3000"

Roles == {"backend", "frontend"}

None == "None"

VARIABLES
    \* ---- wait_for_services (main.rs:135-185) ----
    gpc,            \* position of the async fn: loop, awaitB, awaitF, sleep, done
    attempts,       \* main.rs:136
    backend_ready,  \* main.rs:140 (loop-scoped local)
    frontend_ready, \* main.rs:141 (loop-scoped local)
    resp,           \* what each endpoint answered in the current tick
    gate,           \* Polling / Ready / Failed
    ticks,          \* loop iterations entered
    probeCalls,     \* calls of is_backend_ready / is_frontend_ready
    statusEmits,    \* window.eval calls of main.rs:160
    lastStatus,     \* text of the last status emission
    readyEmits,     \* window.navigate calls of main.rs:147
    failedEmits,    \* window.eval calls of main.rs:172
    navigated,      \* URL passed to window.navigate
    hung,           \* the request in flight never gets an answer
    \* ---- launch threads (main.rs:229-255) ----
    bpc, bidx, bchild,
    fpc, fidx, fchild,
    launchErr,      \* per role: the Err value start_* returned, if any
    attempted,      \* per role: program names whose spawn() was called, in order
    spawned,        \* per role: program names whose spawn() returned Ok
    \* ---- Arc<Mutex<AppState>> (main.rs:129-132, 227) ----
    state,          \* [backend |-> Option<Child>, frontend |-> Option<Child>]
    mutex,          \* "free" or the unit holding the MutexGuard
    \* ---- close-requested handler (main.rs:266-274) ----
    hpc,
    killCalls,      \* per role: child.kill() calls made by the handler
    killErrs        \* per role: child.kill() calls that returned Err

gateVars == <<gpc, attempts, backend_ready, frontend_ready, resp, gate, ticks,
              probeCalls, statusEmits, lastStatus, readyEmits, failedEmits,
              navigated, hung>>

launchVars == <<bpc, bidx, bchild, fpc, fidx, fchild, attempted, spawned,
                launchErr>>

regVars == <<state, mutex>>

closeVars == <<hpc, killCalls, killErrs>>

vars == <<gateVars, launchVars, regVars, closeVars>>

NoResp == [backend |-> None, frontend |-> None]

----------------------------------------------------------------------------
(* wait_for_services                                                        *)

\* Off-by-one loop bound.
LoopCondInclusive(a) == a <= max_attempts

\* main.rs:139  while attempts < max_attempts
LoopCond(a) == a < max_attempts

\* Hand-off as soon as either side answers.
BothReadyEither(b, f) == b \/ f

\* main.rs:143  if backend_ready && frontend_ready
BothReady(b, f) == b /\ f

\* The two waiting texts exchanged.
StatusLabelSwapped(b, f) ==
    IF b /\ ~f THEN "Waiting for backend..."
    ELSE IF ~b /\ f THEN "Waiting for frontend..."
    ELSE "Starting services..."

\* The return of main.rs:148 left out: the task goes on to the sleep.
NavigateFallThrough == "sleep"

\* main.rs:148  return;
NavigateReturn == "done"

\* The increment of main.rs:165 left out.
AttemptsNotIncremented(a) == a

\* The counter stepped twice per tick.
AttemptsDoubleIncrement(a) == a + 2

\* main.rs:165  attempts += 1;
IncrementAttempts(a) == a + 1

\* main.rs:152-158
StatusLabel(b, f) ==
    IF b /\ ~f THEN "Waiting for frontend..."
    ELSE IF ~b /\ f THEN "Waiting for backend..."
    ELSE "Starting services..."

\* main.rs:139-140: loop condition true, is_backend_ready() is called and
\* awaited.
GateProbeBackend ==
    /\ gpc = "loop"
    /\ LoopCond(attempts)
    /\ gpc' = "awaitB"
    /\ ticks' = ticks + 1
    /\ probeCalls' = probeCalls + 1
    /\ UNCHANGED <<attempts, backend_ready, frontend_ready, resp, gate,
                   statusEmits, lastStatus, readyEmits, failedEmits, navigated>>
    /\ UNCHANGED hung
    /\ UNCHANGED <<launchVars, regVars, closeVars>>

\* main.rs:140-141: the backend probe returns, backend_ready is bound and
\* is_frontend_ready() is called and awaited.
GateBackendReturns ==
    /\ gpc = "awaitB"
    /\ ~hung
    /\ \E r \in ProbeResponses :
          /\ resp' = [resp EXCEPT !.backend = r]
          /\ backend_ready' = is_backend_ready(r)
    /\ gpc' = "awaitF"
    /\ probeCalls' = probeCalls + 1
    /\ UNCHANGED <<attempts, frontend_ready, gate, ticks, statusEmits,
                   lastStatus, readyEmits, failedEmits, navigated>>
    /\ UNCHANGED hung
    /\ UNCHANGED <<launchVars, regVars, closeVars>>

\* main.rs:141-164: the frontend probe returns; either navigate and return
\* (143-149) or emit the status text (152-162) and start the sleep (164).
GateFrontendReturns ==
    /\ gpc = "awaitF"
    /\ ~hung
    /\ \E r \in ProbeResponses :
          /\ resp' = [resp EXCEPT !.frontend = r]
          /\ frontend_ready' = is_frontend_ready(r)
    /\ IF BothReady(backend_ready, frontend_ready')
          THEN /\ navigated' = FrontendRootUrl
               /\ readyEmits' = readyEmits + 1
               /\ gate' = "Ready"
               /\ gpc' = NavigateReturn
               /\ UNCHANGED <<statusEmits, lastStatus>>
          ELSE /\ lastStatus' = StatusLabel(backend_ready, frontend_ready')
               /\ statusEmits' = statusEmits + 1
               /\ gpc' = "sleep"
               /\ UNCHANGED <<navigated, readyEmits, gate>>
    /\ UNCHANGED <<attempts, backend_ready, ticks, probeCalls, failedEmits>>
    /\ UNCHANGED hung
    /\ UNCHANGED <<launchVars, regVars, closeVars>>

\* main.rs:164-168: the sleep ends, attempts += 1, the loop-scoped locals go
\* out of scope.
GateWake ==
    /\ gpc = "sleep"
    /\ attempts' = IncrementAttempts(attempts)
    /\ backend_ready' = FALSE
    /\ frontend_ready' = FALSE
    /\ resp' = NoResp
    /\ gpc' = "loop"
    /\ UNCHANGED <<gate, ticks, probeCalls, statusEmits, lastStatus,
                   readyEmits, failedEmits, navigated>>
    /\ UNCHANGED hung
    /\ UNCHANGED <<launchVars, regVars, closeVars>>

\* main.rs:139, 170-185: loop condition false, the error view is rendered and
\* the function returns.
GateTimeout ==
    /\ gpc = "loop"
    /\ ~LoopCond(attempts)
    /\ failedEmits' = failedEmits + 1
    /\ gate' = "Failed"
    /\ gpc' = "done"
    /\ UNCHANGED <<attempts, backend_ready, frontend_ready, resp, ticks,
                   probeCalls, statusEmits, lastStatus, readyEmits, navigated>>
    /\ UNCHANGED hung
    /\ UNCHANGED <<launchVars, regVars, closeVars>>

\* main.rs:12, 20: reqwest::get(url).await sets no timeout; a request whose
\* peer never answers stays pending.
ProbeHangs ==
    /\ gpc \in {"awaitB", "awaitF"}
    /\ ~hung
    /\ hung' = TRUE
    /\ UNCHANGED <<gpc, attempts, backend_ready, frontend_ready, resp, gate,
                   ticks, probeCalls, statusEmits, lastStatus, readyEmits,
                   failedEmits, navigated>>
    /\ UNCHANGED <<launchVars, regVars, closeVars>>

wait_for_services ==
    \/ GateProbeBackend
    \/ GateBackendReturns
    \/ GateFrontendReturns
    \/ GateWake
    \/ GateTimeout

----------------------------------------------------------------------------
(* start_backend / start_frontend and the launch threads                    *)

\* main.rs:31
venv_python == "../backend/venv/bin/python"

\* main.rs:57
python_commands == <<"python3", "python", "py">>

\* main.rs:95-100 (program names)
commands == <<"npm", "yarn", "pnpm", "bun">>

\* No Err returned (yet): main.rs:233, 247 match on the Result.
NoError == [kind |-> "None", message |-> ""]

\* main.rs:84-87: the std::io::Error start_backend returns.
BackendNotFound ==
    [kind |-> "NotFound",
     message |-> "Could not start Python backend - Python not found"]

\* main.rs:123-126: the std::io::Error start_frontend returns.
FrontendNotFound ==
    [kind |-> "NotFound",
     message |-> "Could not start React frontend - node package manager not found"]

\* The same candidate tried again.
SameCandidate(i) == i

\* The for loops of main.rs:59 and main.rs:102 move to the next element.
NextCandidate(i) == i + 1

\* The whole AppState replaced instead of one field.
StoreBackendOverwrite(s, child) == [backend |-> child, frontend |-> None]

\* A lock() that does not wait for the holder.
CanLockAlways(m) == TRUE

\* main.rs:235, 249, 267: Mutex::lock() returns only while no guard is alive.
CanLock(m) == m = "free"

\* main.rs:236  s.backend = Some(child);
StoreBackend(s, child) == [s EXCEPT !.backend = child]

\* The frontend child stored in the backend field.
StoreFrontendWrongField(s, child) == [s EXCEPT !.backend = child]

\* main.rs:250  s.frontend = Some(child);
StoreFrontend(s, child) == [s EXCEPT !.frontend = child]

\* main.rs:232-233, 31-32: the thread starts, start_backend tests whether the
\* venv interpreter exists.
BackendStart ==
    /\ bpc = "start"
    /\ \E exists \in BOOLEAN : bpc' = IF exists THEN "venv" ELSE "cmds"
    /\ UNCHANGED <<bidx, bchild, fpc, fidx, fchild, attempted, spawned>>
    /\ UNCHANGED <<gateVars, regVars, closeVars>>
    /\ UNCHANGED launchErr

\* main.rs:33-53: spawn with the venv interpreter; Ok returns the child, Err
\* falls through to the command list.
BackendTryVenv ==
    /\ bpc = "venv"
    /\ attempted' = [attempted EXCEPT !.backend = Append(@, venv_python)]
    /\ \E ok \in BOOLEAN :
          IF ok
             THEN /\ spawned' = [spawned EXCEPT !.backend = @ \cup {venv_python}]
                  /\ bchild' = venv_python
                  /\ bpc' = "got"
             ELSE /\ bpc' = "cmds"
                  /\ UNCHANGED <<spawned, bchild>>
    /\ UNCHANGED <<bidx, fpc, fidx, fchild>>
    /\ UNCHANGED <<gateVars, regVars, closeVars>>
    /\ UNCHANGED launchErr

\* main.rs:59-82: one iteration of the loop over python_commands.
BackendTryCommand ==
    /\ bpc = "cmds"
    /\ bidx <= Len(python_commands)
    /\ attempted' = [attempted EXCEPT !.backend = Append(@, python_commands[bidx])]
    /\ \E ok \in BOOLEAN :
          IF ok
             THEN /\ spawned' = [spawned EXCEPT
                                   !.backend = @ \cup {python_commands[bidx]}]
                  /\ bchild' = python_commands[bidx]
                  /\ bpc' = "got"
                  /\ UNCHANGED bidx
             ELSE /\ bidx' = NextCandidate(bidx)
                  /\ UNCHANGED <<spawned, bchild, bpc>>
    /\ UNCHANGED <<fpc, fidx, fchild>>
    /\ UNCHANGED <<gateVars, regVars, closeVars>>
    /\ UNCHANGED launchErr

\* The failure ends the whole process instead of the thread: the frontend
\* launch and the polling task are cut off.
BackendExhaustedExits ==
    /\ bpc = "cmds"
    /\ bidx > Len(python_commands)
    /\ bpc' = "failed"
    /\ fpc' = "failed"
    /\ gpc' = "done"
    /\ launchErr' = [launchErr EXCEPT !.backend = BackendNotFound]
    /\ UNCHANGED <<bidx, bchild, fidx, fchild, attempted, spawned>>
    /\ UNCHANGED <<attempts, backend_ready, frontend_ready, resp, gate, ticks,
                   probeCalls, statusEmits, lastStatus, readyEmits, failedEmits,
                   navigated, hung>>
    /\ UNCHANGED <<regVars, closeVars>>

\* main.rs:84-87, 238: the list is exhausted, start_backend returns Err and the
\* thread logs it and ends.
BackendExhausted ==
    /\ bpc = "cmds"
    /\ bidx > Len(python_commands)
    /\ bpc' = "failed"
    /\ launchErr' = [launchErr EXCEPT !.backend = BackendNotFound]
    /\ UNCHANGED <<bidx, bchild, fpc, fidx, fchild, attempted, spawned>>
    /\ UNCHANGED <<gateVars, regVars, closeVars>>

\* main.rs:235  let mut s = state_clone.lock().unwrap();
BackendLock ==
    /\ bpc = "got"
    /\ CanLock(mutex)
    /\ mutex' = "backend"
    /\ bpc' = "locked"
    /\ UNCHANGED <<bidx, bchild, fpc, fidx, fchild, attempted, spawned, state>>
    /\ UNCHANGED <<gateVars, closeVars>>
    /\ UNCHANGED launchErr

\* main.rs:236-237: the store, then the guard is dropped.
BackendStore ==
    /\ bpc = "locked"
    /\ state' = StoreBackend(state, bchild)
    /\ mutex' = "free"
    /\ bpc' = "done"
    /\ UNCHANGED <<bidx, bchild, fpc, fidx, fchild, attempted, spawned>>
    /\ UNCHANGED <<gateVars, closeVars>>
    /\ UNCHANGED launchErr

\* main.rs:246-247, 95-100: the thread starts, start_frontend builds its list.
FrontendStart ==
    /\ fpc = "start"
    /\ fpc' = "cmds"
    /\ UNCHANGED <<bpc, bidx, bchild, fidx, fchild, attempted, spawned>>
    /\ UNCHANGED <<gateVars, regVars, closeVars>>
    /\ UNCHANGED launchErr

\* main.rs:102-121: one iteration of the loop over commands.
FrontendTryCommand ==
    /\ fpc = "cmds"
    /\ fidx <= Len(commands)
    /\ attempted' = [attempted EXCEPT !.frontend = Append(@, commands[fidx])]
    /\ \E ok \in BOOLEAN :
          IF ok
             THEN /\ spawned' = [spawned EXCEPT !.frontend = @ \cup {commands[fidx]}]
                  /\ fchild' = commands[fidx]
                  /\ fpc' = "got"
                  /\ UNCHANGED fidx
             ELSE /\ fidx' = NextCandidate(fidx)
                  /\ UNCHANGED <<spawned, fchild, fpc>>
    /\ UNCHANGED <<bpc, bidx, bchild>>
    /\ UNCHANGED <<gateVars, regVars, closeVars>>
    /\ UNCHANGED launchErr

\* The launch failure ends the gate at once with the error view.
FrontendExhaustedFailsGate ==
    /\ fpc = "cmds"
    /\ fidx > Len(commands)
    /\ fpc' = "failed"
    /\ launchErr' = [launchErr EXCEPT !.frontend = FrontendNotFound]
    /\ gate' = IF gate = "Polling" THEN "Failed" ELSE gate
    /\ gpc' = "done"
    /\ failedEmits' = IF gate = "Polling" THEN failedEmits + 1 ELSE failedEmits
    /\ UNCHANGED <<bpc, bidx, bchild, fidx, fchild, attempted, spawned>>
    /\ UNCHANGED <<attempts, backend_ready, frontend_ready, resp, ticks,
                   probeCalls, statusEmits, lastStatus, readyEmits, navigated,
                   hung>>
    /\ UNCHANGED <<regVars, closeVars>>

\* main.rs:123-126, 252
FrontendExhausted ==
    /\ fpc = "cmds"
    /\ fidx > Len(commands)
    /\ fpc' = "failed"
    /\ launchErr' = [launchErr EXCEPT !.frontend = FrontendNotFound]
    /\ UNCHANGED <<bpc, bidx, bchild, fidx, fchild, attempted, spawned>>
    /\ UNCHANGED <<gateVars, regVars, closeVars>>

\* main.rs:249
FrontendLock ==
    /\ fpc = "got"
    /\ CanLock(mutex)
    /\ mutex' = "frontend"
    /\ fpc' = "locked"
    /\ UNCHANGED <<bpc, bidx, bchild, fidx, fchild, attempted, spawned, state>>
    /\ UNCHANGED <<gateVars, closeVars>>
    /\ UNCHANGED launchErr

\* main.rs:250-251
FrontendStore ==
    /\ fpc = "locked"
    /\ state' = StoreFrontend(state, fchild)
    /\ mutex' = "free"
    /\ fpc' = "done"
    /\ UNCHANGED <<bpc, bidx, bchild, fidx, fchild, attempted, spawned>>
    /\ UNCHANGED <<gateVars, closeVars>>
    /\ UNCHANGED launchErr

BackendThread ==
    \/ BackendStart
    \/ BackendTryVenv
    \/ BackendTryCommand
    \/ BackendExhausted
    \/ BackendLock
    \/ BackendStore

FrontendThread ==
    \/ FrontendStart
    \/ FrontendTryCommand
    \/ FrontendExhausted
    \/ FrontendLock
    \/ FrontendStore

----------------------------------------------------------------------------
(* close-requested handler                                                  *)

\* Results of Child::kill (main.rs:269, 272).
KillResults == {"Ok", "Err"}

\* The slot used without testing it.
HasHandleAlways(slot) == TRUE

\* main.rs:268 / 271: if let Some(child) = s.<role>.as_mut()
HasHandle(slot) == slot # None

\* The handler returns on the first kill() error.
ReturnOnKillError(r) == IF r = "Err" THEN "done" ELSE "afterBackend"

\* main.rs:269  let _ = child.kill();  the result is dropped and the handler
\* goes on to the frontend slot.
AfterBackendKill(r) == "afterBackend"

\* The close request also cancels the polling task.
CloseRequestedCancelsGate ==
    /\ hpc = "idle"
    /\ hpc' = "entered"
    /\ gpc' = "done"
    /\ UNCHANGED <<killCalls, killErrs>>
    /\ UNCHANGED <<attempts, backend_ready, frontend_ready, resp, gate, ticks,
                   probeCalls, statusEmits, lastStatus, readyEmits, failedEmits,
                   navigated, hung>>
    /\ UNCHANGED <<launchVars, regVars>>

\* main.rs:266: the once_global listener fires (at most once).
CloseRequested ==
    /\ hpc = "idle"
    /\ hpc' = "entered"
    /\ UNCHANGED <<killCalls, killErrs>>
    /\ UNCHANGED <<gateVars, launchVars, regVars>>

\* main.rs:267  let mut s = state_for_cleanup.lock().unwrap();
CloseLock ==
    /\ hpc = "entered"
    /\ CanLock(mutex)
    /\ mutex' = "close"
    /\ hpc' = "locked"
    /\ UNCHANGED <<state, killCalls, killErrs>>
    /\ UNCHANGED <<gateVars, launchVars>>

\* main.rs:268-270: kill the backend child if the slot holds one; the result
\* is discarded.
CloseKillBackend ==
    /\ hpc = "locked"
    /\ IF HasHandle(state.backend)
          THEN /\ killCalls' = [killCalls EXCEPT !.backend = @ + 1]
               /\ \E r \in KillResults :
                     /\ killErrs' = [killErrs EXCEPT
                                       !.backend = IF r = "Err" THEN @ + 1 ELSE @]
                     /\ hpc' = AfterBackendKill(r)
          ELSE /\ UNCHANGED <<killCalls, killErrs>>
               /\ hpc' = "afterBackend"
    /\ UNCHANGED <<gateVars, launchVars, regVars>>

\* main.rs:271-274: the same for the frontend child, then the guard is dropped
\* and the handler returns.
CloseKillFrontend ==
    /\ hpc = "afterBackend"
    /\ IF HasHandle(state.frontend)
          THEN /\ killCalls' = [killCalls EXCEPT !.frontend = @ + 1]
               /\ \E r \in KillResults :
                     killErrs' = [killErrs EXCEPT
                                    !.frontend = IF r = "Err" THEN @ + 1 ELSE @]
          ELSE UNCHANGED <<killCalls, killErrs>>
    /\ mutex' = "free"
    /\ hpc' = "done"
    /\ UNCHANGED state
    /\ UNCHANGED <<gateVars, launchVars>>

CloseHandler ==
    \/ CloseRequested
    \/ CloseLock
    \/ CloseKillBackend
    \/ CloseKillFrontend

----------------------------------------------------------------------------
(* main.rs:201-276 setup: state after construction                          *)

Init ==
    /\ gpc = "loop"
    /\ attempts = InitialAttempts
    /\ backend_ready = FALSE
    /\ frontend_ready = FALSE
    /\ resp = NoResp
    /\ gate = "Polling"
    /\ ticks = 0
    /\ probeCalls = 0
    /\ statusEmits = 0
    /\ lastStatus = None
    /\ readyEmits = 0
    /\ failedEmits = 0
    /\ navigated = None
    /\ hung = FALSE
    /\ bpc = "start"
    /\ bidx = 1
    /\ bchild = None
    /\ fpc = "start"
    /\ fidx = 1
    /\ fchild = None
    /\ attempted = [backend |-> <<>>, frontend |-> <<>>]
    /\ launchErr = [backend |-> NoError, frontend |-> NoError]
    /\ spawned = [backend |-> {}, frontend |-> {}]
    /\ state = [backend |-> None, frontend |-> None]
    /\ mutex = "free"
    /\ hpc = "idle"
    /\ killCalls = [backend |-> 0, frontend |-> 0]
    /\ killErrs = [backend |-> 0, frontend |-> 0]

\* main.rs:259-261: the task spawned on the async runtime.
GateStep == wait_for_services

SupervisorNext == BackendThread \/ FrontendThread \/ CloseHandler

Next == GateStep \/ SupervisorNext

\* The whole program.
Spec == Init /\ [][Next]_vars

\* The polling task alone; the runtime keeps polling the task while it can
\* make progress and every probe call returns.
GateSpec == Init /\ [][GateStep]_vars

FairGateSpec == GateSpec /\ WF_vars(GateStep)

\* The polling task with endpoints that may leave a request unanswered.
HungProbeSpec == Init /\ [][GateStep \/ ProbeHangs]_vars

\* main.rs:12, 20, 33-41, 96: the probed endpoints are the ones the children
\* serve; a role's probe gets a success answer only when a child of that role
\* has been spawned.
ProbeNeedsChild ==
    \A r \in Roles : resp'[r] = "ok_success" => spawned[r] # {}

GateBackendReturnsFromChild == GateBackendReturns /\ ProbeNeedsChild

GateFrontendReturnsFromChild == GateFrontendReturns /\ ProbeNeedsChild

\* The whole program with no service on the two ports other than the
\* children.
LaunchFailureSpec ==
    Init /\ [][\/ GateProbeBackend
               \/ GateBackendReturnsFromChild
               \/ GateFrontendReturnsFromChild
               \/ GateWake
               \/ GateTimeout
               \/ SupervisorNext]_vars

\* The launch threads, the registry and the close-requested handler.
SupervisorSpec == Init /\ [][SupervisorNext]_vars

----------------------------------------------------------------------------
(* Properties of wait_for_services                                          *)

Terminal == gate \in {"Ready", "Failed"}

ProbeTrue(r) == r = "ok_success"

\* C1: when every probe call returns, the gate started in Polling(0)
\* eventually reaches Ready or Failed, and it never enters more than
\* max_attempts ticks.
GateTerminates ==
    /\ <>Terminal
    /\ [](ticks <= max_attempts)
    /\ [](Terminal => gpc = "done")

GateTerminatesWitness ==
    /\ gate = "Failed"
    /\ ticks = max_attempts

\* C2: the gate never emits more than max_attempts status updates; when it
\* ends in Failed it has emitted exactly max_attempts status updates and
\* exactly one Failed emission, no Ready, and after Failed no probe call and
\* no emission is made.
GateFailedAfterMaxAttempts ==
    /\ [](statusEmits <= max_attempts)
    /\ [](failedEmits > 0 => gate = "Failed")
    /\ [](gate = "Failed" => /\ statusEmits = max_attempts
                             /\ failedEmits = 1
                             /\ readyEmits = 0
                             /\ ticks = max_attempts
                             /\ probeCalls = 2 * max_attempts)
    /\ [][gate = "Failed" =>
            UNCHANGED <<probeCalls, statusEmits, failedEmits, readyEmits>>]_vars

GateFailedWitness ==
    /\ gate = "Failed"
    /\ statusEmits = max_attempts
    /\ failedEmits = 1

\* C3: a tick in which both probes return true (tick 1 included) makes
\* exactly one Ready hand-off to the frontend root URL, emits no status update
\* and no Failed for that tick, and nothing of the gate changes afterwards.
ReadyStopsGate ==
    /\ []((ProbeTrue(resp.backend) /\ ProbeTrue(resp.frontend)) => gate = "Ready")
    /\ [](gate = "Ready" => /\ readyEmits = 1
                            /\ failedEmits = 0
                            /\ navigated = FrontendRootUrl
                            /\ gpc = "done"
                            /\ ticks = attempts + 1
                            /\ statusEmits = attempts
                            /\ probeCalls = 2 * ticks)
    /\ [](gate # "Ready" => readyEmits = 0 /\ navigated = None)
    /\ [][gate = "Ready" => UNCHANGED gateVars]_vars

ReadyOnFirstTickWitness ==
    /\ gate = "Ready"
    /\ ticks = 1
    /\ statusEmits = 0
    /\ readyEmits = 1

\* C4: Ready is emitted only in a tick whose backend probe and frontend probe
\* both returned true in that same tick.
ReadyOnlyWhenBothProbesTrue ==
    /\ [](gate = "Ready" => ProbeTrue(resp.backend) /\ ProbeTrue(resp.frontend))
    /\ [][readyEmits' # readyEmits =>
            ProbeTrue(resp'.backend) /\ ProbeTrue(resp'.frontend)]_vars

\* Ready in a tick that follows one in which only the frontend answered.
ReadyAfterPartialTickWitness ==
    /\ gate = "Ready"
    /\ lastStatus = "Waiting for backend..."
    /\ attempts > 1

\* The table of the specification, section 8.
ExpectedLabel(b, f) ==
    CASE b /\ ~f -> "Waiting for frontend..."
      [] ~b /\ f -> "Waiting for backend..."
      [] ~b /\ ~f -> "Starting services..."
      [] b /\ f -> "Ready"

\* C5: the status emitted in a tick is the table's entry for that tick's two
\* probe booleans, whatever the attempt number and the earlier ticks were.
StatusIsFunctionOfCurrentProbes ==
    /\ gpc = "sleep" =>
          lastStatus = ExpectedLabel(ProbeTrue(resp.backend), ProbeTrue(resp.frontend))
    /\ (gpc = "done" /\ gate = "Ready") =>
          ExpectedLabel(ProbeTrue(resp.backend), ProbeTrue(resp.frontend)) = "Ready"
    /\ (gpc = "sleep") => gate = "Polling"

\* "Waiting for frontend..." emitted in a later tick, after a tick that emitted
\* another text.
StatusWitness ==
    /\ gpc = "sleep"
    /\ attempts = max_attempts - 1
    /\ ProbeTrue(resp.backend)
    /\ ~ProbeTrue(resp.frontend)
    /\ lastStatus = "Waiting for frontend..."

----------------------------------------------------------------------------
(* Properties of the launch threads, AppState and the close handler         *)

LaunchFinished(pc) == pc \in {"done", "failed"}

\* C6: once the close handler has run and both launch threads have finished,
\* every child that was spawned has had kill() called on it.
AllSpawnedChildrenKilled ==
    (hpc = "done" /\ LaunchFinished(bpc) /\ LaunchFinished(fpc)) =>
        \A r \in Roles : spawned[r] # {} => killCalls[r] >= 1

\* C7: once both launch threads have stored their handle, AppState holds the
\* backend child and the frontend child, whatever the interleaving.
BothRegistrationsKept ==
    (bpc = "done" /\ fpc = "done") =>
        /\ bchild # None
        /\ fchild # None
        /\ state.backend = bchild
        /\ state.frontend = fchild

BothRegisteredWitness ==
    /\ bpc = "done"
    /\ fpc = "done"
    /\ hpc = "idle"
    /\ state.backend = "py"
    /\ state.frontend = "bun"

\* C8: the handler releases every handle it terminates (after it completes,
\* the slot of a role it killed is empty), and no role's child gets more than
\* one kill() call.
ShutdownReleasesHandles ==
    /\ hpc = "done" => \A r \in Roles : killCalls[r] > 0 => state[r] = None
    /\ \A r \in Roles : killCalls[r] <= 1

\* C9: while the handler runs with both slots empty it calls no kill(), leaves
\* AppState as it is and can always take its next step to completion.
ShutdownWithNoHandlesIsNoOp ==
    /\ []((hpc \in {"locked", "afterBackend"}) =>
            /\ mutex = "close"
            /\ ENABLED CloseHandler)
    /\ [][(/\ hpc \in {"locked", "afterBackend"}
           /\ state.backend = None
           /\ state.frontend = None) =>
            /\ UNCHANGED <<state, killCalls, killErrs>>
            /\ hpc' \in {hpc, "afterBackend", "done"}]_vars
    /\ []((hpc = "done" /\ spawned.backend = {} /\ spawned.frontend = {}) =>
            /\ killCalls = [backend |-> 0, frontend |-> 0]
            /\ state = [backend |-> None, frontend |-> None])

\* The handler has completed on an empty registry: the backend launch failed
\* and the frontend child is spawned but not yet stored.
ShutdownNoHandlesWitness ==
    /\ hpc = "done"
    /\ state = [backend |-> None, frontend |-> None]
    /\ killCalls = [backend |-> 0, frontend |-> 0]
    /\ bpc = "failed"
    /\ fpc = "got"

IsPrefix(s, t) ==
    /\ Len(s) <= Len(t)
    /\ \A i \in 1..Len(s) : s[i] = t[i]

Last(s) == s[Len(s)]

\* Per role: the child the resolver returned, and whether it has returned one.
Returned(r) == IF r = "backend" THEN bchild ELSE fchild

HasReturned(r) ==
    IF r = "backend" THEN bpc \in {"got", "locked", "done"}
                     ELSE fpc \in {"got", "locked", "done"}

\* C10: the candidates are tried in list order, each at most once; the child
\* returned is the one of the last candidate tried, every earlier candidate
\* failed, and nothing is spawned after the first success (at most one child
\* per role).
CandidatesTriedInOrder ==
    /\ IsPrefix(attempted.frontend, commands)
    /\ \/ IsPrefix(attempted.backend, python_commands)
       \/ IsPrefix(attempted.backend, <<venv_python>> \o python_commands)
    /\ \A r \in Roles :
          /\ Cardinality(spawned[r]) <= 1
          /\ HasReturned(r) <=> spawned[r] # {}
          /\ HasReturned(r) <=> Returned(r) # None
          /\ HasReturned(r) =>
                /\ spawned[r] = {Returned(r)}
                /\ attempted[r] # <<>>
                /\ Last(attempted[r]) = Returned(r)

\* [fail, fail, succeed]: the third candidate's child after two failed spawns.
ThirdCandidateWitness ==
    /\ fpc = "done"
    /\ attempted.frontend = <<"npm", "yarn", "pnpm">>
    /\ spawned.frontend = {"pnpm"}
    /\ state.frontend = "pnpm"
    /\ Len(attempted.frontend) - Cardinality(spawned.frontend) = 2

----------------------------------------------------------------------------
(* Properties of the launch failure path                                    *)

LaunchFailed(r) == IF r = "backend" THEN bpc = "failed" ELSE fpc = "failed"

\* C11: when every candidate of a role fails to spawn, the error returned
\* carries the program names of all candidates tried, in order, and the last
\* spawn error.
ResolutionErrorListsAttempts ==
    \A r \in Roles :
        LaunchFailed(r) =>
            /\ "attempted" \in DOMAIN launchErr[r]
            /\ launchErr[r].attempted = attempted[r]
            /\ "lastError" \in DOMAIN launchErr[r]

\* What belongs to one role's launch thread.
LaunchPc(r) == IF r = "backend" THEN bpc ELSE fpc

ThreadVars(r) == IF r = "backend" THEN <<bpc, bidx, bchild>> ELSE <<fpc, fidx, fchild>>

Other(r) == IF r = "backend" THEN "frontend" ELSE "backend"

ThreadEnabled(r) == IF r = "backend" THEN ENABLED BackendThread ELSE ENABLED FrontendThread

\* C12: a role whose candidates all failed leaves its slot empty and holds no
\* lock; the step that fails changes nothing of the other thread, of the gate,
\* of AppState or of the handler; and afterwards the other thread can take its
\* next step (its only wait is for the mutex while the handler holds it) and
\* the gate can take its next step until it has returned.
LaunchFailureIsIsolated ==
    /\ [](\A r \in Roles :
            LaunchFailed(r) =>
               /\ state[r] = None
               /\ spawned[r] = {}
               /\ mutex # r
               /\ ~LaunchFinished(LaunchPc(Other(r))) =>
                     (ThreadEnabled(Other(r)) \/ mutex = "close")
               /\ gpc # "done" => ENABLED GateStep)
    /\ [][\A r \in Roles :
            (LaunchFailed(r)' /\ ~LaunchFailed(r)) =>
               /\ UNCHANGED <<gateVars, regVars, closeVars>>
               /\ UNCHANGED ThreadVars(Other(r))
               /\ UNCHANGED <<attempted[Other(r)], spawned[Other(r)],
                              launchErr[Other(r)]>>]_vars

\* The backend launch failed, the frontend thread then stored its child and the
\* gate has gone through ticks.
LaunchFailureIsolatedWitness ==
    /\ bpc = "failed"
    /\ fpc = "done"
    /\ state = [backend |-> None, frontend |-> "yarn"]
    /\ gate = "Polling"
    /\ ticks = 2

----------------------------------------------------------------------------
(* Properties of the probes inside a tick                                   *)

ProbeInFlight == gpc \in {"awaitB", "awaitF"}

\* C13: a probe whose request never receives a response still returns (false),
\* so whenever a probe is in flight the polling loop can take its next step.
HungProbeDoesNotStall ==
    ProbeInFlight => ENABLED wait_for_services

\* Probe calls made so far in the current tick.
CallsThisTick == probeCalls - 2 * (ticks - 1)

\* C14: the two probes of a tick are issued together: while the backend probe
\* is in flight the frontend probe of that tick has been issued as well, and
\* the tick goes on only when both have returned.
ProbesIssuedConcurrently ==
    /\ gpc = "awaitB" => CallsThisTick = 2
    /\ gpc = "sleep" => CallsThisTick = 2

\* C15: attempts starts at 0, stays within 0..max_attempts and only ever
\* grows by exactly 1, after the status emission of its tick; status emissions
\* come one per tick in tick order; a tick issues its first probe only when
\* every earlier tick has emitted its status and been counted.
EmissionsOrderedAttemptsMonotonic ==
    /\ [](attempts \in 0..max_attempts)
    /\ [](ticks = 0 => attempts = 0 /\ statusEmits = 0)
    /\ [](statusEmits <= ticks /\ attempts <= statusEmits)
    /\ [][attempts' # attempts =>
            /\ attempts' = attempts + 1
            /\ statusEmits = attempts + 1
            /\ UNCHANGED <<statusEmits, probeCalls, ticks>>]_vars
    /\ [][statusEmits' # statusEmits =>
            /\ statusEmits' = statusEmits + 1
            /\ statusEmits' = ticks
            /\ attempts = statusEmits]_vars
    /\ [][ticks' # ticks =>
            /\ ticks' = ticks + 1
            /\ statusEmits = ticks
            /\ attempts = ticks]_vars

\* The third tick has issued its first probe after two emitted statuses.
ThirdTickWitness ==
    /\ gpc = "awaitB"
    /\ ticks = 3
    /\ statusEmits = 2
    /\ attempts = 2

----------------------------------------------------------------------------
(* Properties of AppState                                                   *)

\* C16: each slot holds nothing or the one child its own role spawned; a slot
\* is written only by its own role's launch thread, in its store step, while
\* the slot is empty; a slot that holds a handle is never changed again.
SlotsWrittenOnceByOwner ==
    /\ [](\A r \in Roles : state[r] = None \/ spawned[r] = {state[r]})
    /\ [][\A r \in Roles : state[r] # None => state'[r] = state[r]]_vars
    /\ [][state'.backend # state.backend =>
            /\ bpc = "locked" /\ bpc' = "done"
            /\ state.backend = None
            /\ state'.backend = bchild]_vars
    /\ [][state'.frontend # state.frontend =>
            /\ fpc = "locked" /\ fpc' = "done"
            /\ state.frontend = None
            /\ state'.frontend = fchild]_vars

\* Both slots written, the backend one after the handler has run, and the
\* frontend one still the same after its child was killed.
SlotsKeptWitness ==
    /\ state = [backend |-> "python", frontend |-> "npm"]
    /\ bpc = "done"
    /\ fpc = "done"
    /\ hpc = "done"
    /\ killCalls = [backend |-> 0, frontend |-> 1]

----------------------------------------------------------------------------
(* Properties of the gate together with the supervisor                      *)

\* C17: a launch failure changes nothing of the gate; with a role that has no
\* child (so that its probe never succeeds) the gate never reaches Ready, and
\* when it has ended it has ended in Failed after all max_attempts ticks.
GateRunsToTimeoutOnLaunchFailure ==
    /\ [](\A r \in Roles : spawned[r] = {} => gate # "Ready")
    /\ [](\A r \in Roles :
            (LaunchFailed(r) /\ gpc = "done") =>
               /\ gate = "Failed"
               /\ ticks = max_attempts
               /\ statusEmits = max_attempts
               /\ attempts = max_attempts)
    /\ [](\A r \in Roles :
            (LaunchFailed(r) /\ gpc # "done") =>
               (gate = "Polling" /\ attempts <= ticks /\ ENABLED GateStep))
    /\ [][\A r \in Roles :
            (LaunchFailed(r)' /\ ~LaunchFailed(r)) => UNCHANGED gateVars]_vars

\* The backend launch failed in the middle of the polling and the gate still
\* went through all its ticks to Failed.
TimeoutAfterLaunchFailureWitness ==
    /\ bpc = "failed"
    /\ attempted.backend = <<venv_python, "python3", "python", "py">>
    /\ gate = "Failed"
    /\ ticks = max_attempts
    /\ fpc = "done"

\* The units that take the mutex, and where each is inside its guard's scope.
Units == {"backend", "frontend", "close"}

InCritical(u) ==
    CASE u = "backend" -> bpc = "locked"
      [] u = "frontend" -> fpc = "locked"
      [] u = "close" -> hpc \in {"locked", "afterBackend"}

Spawning(r) == LaunchPc(r) \in {"start", "venv", "cmds"}

\* C18: the mutex is held exactly by the unit that is inside its
\* read/write/terminate of the handles, so at most one unit is; a thread that
\* is spawning holds no lock and is never blocked; the gate never takes the
\* lock and can take its step while another unit holds it; a lock() waits only
\* for a unit that is inside its handle access.
LockExclusiveAndNotHeldAcrossIO ==
    /\ [](mutex \in Units \cup {"free"})
    /\ [](\A u \in Units : InCritical(u) <=> mutex = u)
    /\ [](Cardinality({u \in Units : InCritical(u)}) <= 1)
    /\ [](\A r \in Roles :
            Spawning(r) => (~InCritical(r) /\ mutex # r /\ ThreadEnabled(r)))
    /\ [](\A r \in Roles :
            (LaunchPc(r) = "got" /\ ~ThreadEnabled(r)) =>
               \E u \in Units \ {r} : InCritical(u))
    /\ []((mutex # "free" /\ gpc # "done") => ENABLED GateStep)
    /\ [][gateVars' # gateVars => UNCHANGED <<state, mutex>>]_vars
    /\ [][state' # state => mutex \in Roles]_vars

\* The handler is inside its handle access while the backend thread is
\* spawning, the frontend thread waits for the lock and a probe is in flight.
LockHeldWitness ==
    /\ hpc = "afterBackend"
    /\ mutex = "close"
    /\ bpc = "cmds"
    /\ fpc = "got"
    /\ gpc = "awaitF"

----------------------------------------------------------------------------
(* Properties of the close handler's kill() calls                           *)

\* C19: the handler calls kill() on every slot that holds a handle, whatever
\* the other kill() returned: after the backend step it always goes on to the
\* frontend step, it always ends normally with the mutex released, and no
\* kill() is repeated.
ShutdownIsBestEffort ==
    /\ [][(hpc = "locked" /\ hpc' # hpc) =>
            /\ hpc' = "afterBackend"
            /\ killCalls'.backend =
                  killCalls.backend + (IF HasHandle(state.backend) THEN 1 ELSE 0)
            /\ UNCHANGED <<state, mutex>>]_vars
    /\ [][(hpc = "afterBackend" /\ hpc' # hpc) =>
            /\ hpc' = "done"
            /\ mutex' = "free"
            /\ killCalls'.frontend =
                  killCalls.frontend + (IF HasHandle(state.frontend) THEN 1 ELSE 0)
            /\ UNCHANGED state]_vars
    /\ [](hpc = "afterBackend" => ENABLED CloseKillFrontend)
    /\ [](hpc = "done" => mutex # "close")
    /\ [](\A r \in Roles : killErrs[r] <= killCalls[r] /\ killCalls[r] <= 1)

\* kill() on the backend child returned Err and the frontend child was killed
\* all the same.
BackendKillErrWitness ==
    /\ hpc = "done"
    /\ killErrs = [backend |-> 1, frontend |-> 0]
    /\ killCalls = [backend |-> 1, frontend |-> 1]

----------------------------------------------------------------------------
(* Frame between the gate and the supervisor                                *)

\* C20: a step that changes anything of the launch threads, of AppState, of
\* the mutex or of the handler changes nothing of the gate, and a gate step
\* changes nothing of those; the gate can take a step in every state in which
\* it has not returned (before any handle is stored, after the handler has
\* run), and it returns only by reaching Ready or Failed.
GateAndRegistryDecoupled ==
    /\ [][<<launchVars, regVars, closeVars>>' # <<launchVars, regVars, closeVars>>
            => UNCHANGED gateVars]_vars
    /\ [][gateVars' # gateVars
            => UNCHANGED <<launchVars, regVars, closeVars>>]_vars
    /\ [](gpc # "done" => ENABLED GateStep)
    /\ [](gpc = "done" <=> Terminal)

\* The handler has run and killed both children; the gate is still polling.
GateTicksAfterShutdownWitness ==
    /\ hpc = "done"
    /\ killCalls = [backend |-> 1, frontend |-> 1]
    /\ gate = "Polling"
    /\ gpc = "awaitF"
    /\ ticks = 3

====
